---- MODULE Spec2Model ----
(***************************************************************************)
(* A model of the NDC host simulator (server.js): the frame decoder, the  *)
(* response resolver, the response encoder, the length framing, and the   *)
(* per-connection data handlers of the plain TCP and of the TLS listener   *)
(* with their delayed writes.                                              *)
(*                                                                         *)
(* Texts are sequences of UTF-16 code units, byte arrays are sequences of  *)
(* numbers in 0..255.  The JavaScript values null and undefined are the    *)
(* one-element sequences Null and Undefined, which no text equals; an      *)
(* evaluation that throws has the value Exception.                         *)
(***************************************************************************)
EXTENDS Integers, Sequences, FiniteSets, TLC

VARIABLES
    config,          \* config.json: port, enableTLS and tls, as written there
    process,         \* the server process: its phase, listener, port and exit
    messageMapping,  \* config.messageMapping: opcode text -> response text
    enableTLS,       \* config.enableTLS === true
    now,             \* the clock of the event loop, in milliseconds
    sockets,         \* per connection: "none", "open" or "closed"
    timers,          \* the pending setTimeout callbacks, in scheduling order
    received,        \* history: the data events delivered to the handlers
    written,         \* the frames that socket.write accepted, in order
    running,         \* FALSE once an exception has escaped a callback
    call,            \* a direct call of one of the pure functions
    ret              \* its result, NotReturned until the call is made

vars == <<config, process, messageMapping, enableTLS, now, sockets, timers,
          received, written, running, call, ret>>

----------------------------------------------------------------------------
(* JavaScript values and literals *)

Null == <<-1>>
Undefined == <<-2>>

\* the outcome of an evaluation that throws
Exception == <<-3>>

\* a message new Uint8Array(message) rejects with a RangeError (the number -1)
BadMessage == <<-4>>

\* "B0000", "B0001", "GIS", "null", "Unknown opcode: ", "Hello"
B0000 == <<66, 48, 48, 48, 48>>
B0001 == <<66, 48, 48, 48, 49>>
GIS == <<71, 73, 83>>
NullText == <<110, 117, 108, 108>>
UnknownPrefix ==
    <<85, 110, 107, 110, 111, 119, 110, 32, 111, 112, 99, 111, 100, 101, 58, 32>>
Hello == <<72, 101, 108, 108, 111>>

\* the four control characters and their symbolic spellings
FS == 28
GS == 29
SO == 14
SI == 15
TokFS == <<60, 70, 83, 62>>
TokGS == <<60, 71, 83, 62>>
\* a variant of the SO token without its opening bracket and letter: "S>"
TokSOWithoutBracket == <<83, 62>>
TokSO == <<60, 83, 79, 62>>
TokSI == <<60, 83, 73, 62>>

\* the separator byte of the splitter, the stripped header, the sentinel's
\* field index and the delay of the write
SepByte == 28
HeaderLen == 2
SentinelIndex == 2
Delay == 2000

\* a falsy value: null, undefined or the empty text
Falsy(v) == v = Null \/ v = Undefined \/ v = <<>>

\* `${v}` and the property key of v
ToText(v) == IF v = Null THEN NullText ELSE v

\* array[i], undefined past the end (i counts from 0)
At(array, i) == IF i + 1 <= Len(array) THEN array[i + 1] ELSE Undefined

----------------------------------------------------------------------------
(* TextDecoder("utf-8", {fatal: false}).decode and TextEncoder.encode *)

Replacement == 65533
ByteOrderMark == 65279

\* the code units of code point cp
CodeUnits(cp) ==
    IF cp < 65536 THEN <<cp>>
    ELSE <<55296 + ((cp - 65536) \div 1024), 56320 + ((cp - 65536) % 1024)>>

RECURSIVE Utf8Decode(_, _, _, _, _, _)
\* the decoder's loop over bytes b from index i: cp is the code point under
\* construction, need the continuation bytes still missing, lo..hi the range
\* the next continuation byte must lie in
Utf8Decode(b, i, cp, need, lo, hi) ==
    IF i > Len(b) THEN (IF need = 0 THEN <<>> ELSE <<Replacement>>)
    ELSE LET x == b[i] IN
        IF need = 0 THEN
            IF x < 128 THEN <<x>> \o Utf8Decode(b, i + 1, 0, 0, 128, 191)
            ELSE IF x >= 194 /\ x <= 223
                THEN Utf8Decode(b, i + 1, x % 32, 1, 128, 191)
            ELSE IF x >= 224 /\ x <= 239
                THEN Utf8Decode(b, i + 1, x % 16, 2,
                                IF x = 224 THEN 160 ELSE 128,
                                IF x = 237 THEN 159 ELSE 191)
            ELSE IF x >= 240 /\ x <= 244
                THEN Utf8Decode(b, i + 1, x % 8, 3,
                                IF x = 240 THEN 144 ELSE 128,
                                IF x = 244 THEN 143 ELSE 191)
            ELSE <<Replacement>> \o Utf8Decode(b, i + 1, 0, 0, 128, 191)
        ELSE IF x < lo \/ x > hi
            THEN <<Replacement>> \o Utf8Decode(b, i, 0, 0, 128, 191)
        ELSE IF need = 1
            THEN CodeUnits(cp * 64 + (x % 64))
                 \o Utf8Decode(b, i + 1, 0, 0, 128, 191)
        ELSE Utf8Decode(b, i + 1, cp * 64 + (x % 64), need - 1, 128, 191)

\* decoder.decode(segment): ignoreBOM is false, so a leading U+FEFF is dropped
TextDecode(segment) ==
    LET s == Utf8Decode(segment, 1, 0, 0, 128, 191)
    IN IF s # <<>> /\ s[1] = ByteOrderMark THEN Tail(s) ELSE s

RECURSIVE Utf8Encode(_)
\* new TextEncoder().encode(text)
Utf8Encode(text) ==
    IF text = <<>> THEN <<>>
    ELSE LET c == text[1] IN
        IF c < 128 THEN <<c>> \o Utf8Encode(Tail(text))
        ELSE IF c < 2048
            THEN <<192 + (c \div 64), 128 + (c % 64)>> \o Utf8Encode(Tail(text))
        ELSE IF c >= 55296 /\ c <= 56319 /\ Len(text) >= 2
                /\ text[2] >= 56320 /\ text[2] <= 57343
            THEN LET cp == 65536 + (c - 55296) * 1024 + (text[2] - 56320)
                 IN <<240 + (cp \div 262144), 128 + ((cp \div 4096) % 64),
                      128 + ((cp \div 64) % 64), 128 + (cp % 64)>>
                    \o Utf8Encode(Tail(Tail(text)))
        ELSE IF c >= 55296 /\ c <= 57343
            THEN <<239, 191, 189>> \o Utf8Encode(Tail(text))
        ELSE <<224 + (c \div 4096), 128 + ((c \div 64) % 64), 128 + (c % 64)>>
             \o Utf8Encode(Tail(text))

----------------------------------------------------------------------------
(* splitUint8ArrayBy0x1C *)

RECURSIVE SplitLoop(_, _, _, _)
\* the for loop and the push of the final segment
SplitLoop(input, i, start, parts) ==
    IF i > Len(input) THEN Append(parts, SubSeq(input, start, Len(input)))
    ELSE IF input[i] = SepByte
        THEN SplitLoop(input, i + 1, i + 1,
                       Append(parts, SubSeq(input, start, i - 1)))
    ELSE SplitLoop(input, i + 1, start, parts)

\* strings.filter((s) => s.length > 0)
NonEmpty(strings) == SelectSeq(strings, LAMBDA s : Len(s) > 0)

\* input instanceof Uint8Array
IsUint8Array(input) == \A k \in 1..Len(input) : input[k] \in 0..255

\* the outcome of a throwing evaluation where a list of texts is expected
ListException == <<Exception>>

\* throws a TypeError unless input is a Uint8Array
splitUint8ArrayBy0x1C(input, includeEmpty) ==
    IF ~IsUint8Array(input) THEN ListException
    ELSE LET parts == SplitLoop(input, 1, 1, <<>>)
             strings == [k \in 1..Len(parts) |-> TextDecode(parts[k])]
         IN IF includeEmpty THEN strings ELSE NonEmpty(strings)

----------------------------------------------------------------------------
(* extractOpcode *)

\* a variant that reads the field before the sentinel's
OpcodeOfFieldsOffByOne(fields) ==
    IF At(fields, SentinelIndex - 1) = B0000 THEN GIS ELSE Null

\* fields[2] === "B0000" ? "GIS" : null
OpcodeOfFields(fields) ==
    IF At(fields, SentinelIndex) = B0000 THEN GIS ELSE Null

\* new Uint8Array(message)
NewUint8Array(message) == IF message = BadMessage THEN Exception ELSE message

\* the try block: the opcode it assigns, or Exception if a statement throws
TryExtractOpcode(message) ==
    LET receivedMessage == NewUint8Array(message)
    IN IF receivedMessage = Exception THEN Exception
       ELSE IF Len(receivedMessage) <= HeaderLen THEN Null
       ELSE LET fields == splitUint8ArrayBy0x1C(
                    SubSeq(receivedMessage, HeaderLen + 1, Len(receivedMessage)),
                    FALSE)
            IN IF fields = ListException THEN Exception
               ELSE IF Len(fields) = 0 THEN Null
               ELSE OpcodeOfFields(fields)

\* a variant that splits the whole message, header bytes included
extractOpcodeKeepsHeader(message) ==
    IF message = BadMessage \/ Len(message) <= HeaderLen THEN Null
    ELSE LET fields == splitUint8ArrayBy0x1C(message, FALSE)
         IN IF Len(fields) = 0 THEN Null ELSE OpcodeOfFields(fields)

\* catch (error): the error is logged and opcode is still null
extractOpcode(message) ==
    LET opcode == TryExtractOpcode(message)
    IN IF opcode = Exception THEN Null ELSE opcode

----------------------------------------------------------------------------
(* getResponseMessage *)

\* messageMapping[opcode]
Lookup(opcode) ==
    IF ToText(opcode) \in DOMAIN messageMapping
    THEN messageMapping[ToText(opcode)] ELSE Undefined

\* a variant without the fallback text
getResponseMessageNoFallback(opcode) == Lookup(opcode)

getResponseMessage(opcode) ==
    IF ~Falsy(Lookup(opcode)) THEN Lookup(opcode)
    ELSE UnknownPrefix \o ToText(opcode)

----------------------------------------------------------------------------
(* replaceSeperatorAndToUint8Array *)

IsAt(text, i, pat) ==
    i + Len(pat) - 1 <= Len(text) /\ SubSeq(text, i, i + Len(pat) - 1) = pat

RECURSIVE ReplaceFrom(_, _, _, _)
\* text.replace(/pat/g, ch) from index i: leftmost matches, not overlapping
ReplaceFrom(text, i, pat, ch) ==
    IF i > Len(text) THEN <<>>
    ELSE IF IsAt(text, i, pat)
        THEN <<ch>> \o ReplaceFrom(text, i + Len(pat), pat, ch)
    ELSE <<text[i]>> \o ReplaceFrom(text, i + 1, pat, ch)

RECURSIVE ReplaceFirst(_, _, _)
\* a variant without the g flag: only the leftmost match is replaced
ReplaceFirst(text, pat, ch) ==
    IF text = <<>> THEN <<>>
    ELSE IF IsAt(text, 1, pat)
        THEN <<ch>> \o SubSeq(text, Len(pat) + 1, Len(text))
    ELSE <<text[1]>> \o ReplaceFirst(Tail(text), pat, ch)

ReplaceAll(text, pat, ch) == ReplaceFrom(text, 1, pat, ch)

\* a variant whose third replace writes the FS character for the GS token
replaceSeperatorGsAsFs(input) ==
    LET t1 == ReplaceAll(input, TokFS, FS)
        t2 == ReplaceAll(t1, TokSO, SO)
        t3 == ReplaceAll(t2, TokGS, FS)
        t4 == ReplaceAll(t3, TokSI, SI)
    IN Utf8Encode(t4)

\* input.replace of null or undefined is a TypeError
replaceSeperatorAndToUint8Array(input) ==
    IF input = Null \/ input = Undefined THEN Exception
    ELSE LET t1 == ReplaceAll(input, TokFS, FS)
             t2 == ReplaceAll(t1, TokSO, SO)
             t3 == ReplaceAll(t2, TokGS, GS)
             t4 == ReplaceAll(t3, TokSI, SI)
         IN Utf8Encode(t4)

----------------------------------------------------------------------------
(* appendLength *)

\* data instanceof Uint8Array ? data : new Uint8Array(data)
ToUint8Array(data) == [k \in 1..Len(data) |-> data[k] % 256]

\* a variant that writes the low byte of the length first
appendLengthLittleEndian(data) ==
    LET bytes == ToUint8Array(data)
        len == Len(bytes)
    IN <<len % 256, (len \div 256) % 256>> \o bytes

appendLength(data) ==
    LET bytes == ToUint8Array(data)
        len == Len(bytes)
    IN <<(len \div 256) % 256, len % 256>> \o bytes

----------------------------------------------------------------------------
(* The state after the module has loaded: config.json is read, no          *)
(* connection is accepted yet                                              *)

Conns == {"A", "B"}

NoMapping == [k \in {} |-> <<>>]

\* "A<FS><GS>Z"
TokenText == <<65>> \o TokFS \o TokGS \o <<90>>

\* the mappings config.json may hold (messageMapping || {})
Mappings ==
    { NoMapping,
      [k \in {GIS} |-> Hello],
      [k \in {GIS} |-> <<>>],
      [k \in {GIS} |-> TokenText],
      [k \in {GIS, NullText} |-> IF k = GIS THEN Hello ELSE TokenText] }

NoCall == [fn |-> "none", arg |-> <<>>]

\* the outcome of a call: none yet, a returned value, or an exception
NotReturned == [state |-> "pending"]
Return(value) == [state |-> "returned", value |-> value]
Thrown == [state |-> "thrown"]

\* the port of the listener when config.json names none, and the port the
\* README documents as the default
DefaultPort == 2000
ReadmePort == 8080

\* config.port when config.json has no port field
NoPort == -1

\* the status of process.exit(1)
ExitFailure == 1

\* config.port || 2000
PortOf(cfg) == IF cfg.port = NoPort \/ cfg.port = 0 THEN DefaultPort ELSE cfg.port

\* a variant that takes every truthy enableTLS for true
EnableTLSTruthy(cfg) == cfg.enableTLS \in {"true", "'true'", "1"}

\* config.enableTLS === true; the field is "true", "false", the string
\* "'true'", the number "1" or "absent"
EnableTLSOf(cfg) == cfg.enableTLS = "true"

\* the process before the start section has run
Starting(cfg) ==
    [phase |-> "starting", listener |-> "none", port |-> PortOf(cfg),
     exitCode |-> 0, diagnostic |-> "none", tlsConsulted |-> FALSE]

\* the state once the module's constants are set from the configuration cfg
Booted(mapping, cfg) ==
    /\ config = cfg
    /\ process = Starting(cfg)
    /\ messageMapping = mapping
    /\ enableTLS = EnableTLSOf(cfg)
    /\ now = 0
    /\ sockets = [c \in Conns |-> "none"]
    /\ timers = <<>>
    /\ received = <<>>
    /\ written = <<>>
    /\ running = TRUE

\* a configuration of the listener runs: a port, and the key and certificate
\* files when TLS is on
ConfigOf(tlsOn) ==
    [port |-> ReadmePort,
     enableTLS |-> IF tlsOn THEN "true" ELSE "false",
     tls |-> IF tlsOn THEN "both" ELSE "absent"]

Loaded(mapping, tlsOn) == Booted(mapping, ConfigOf(tlsOn))

serverVars == <<config, process, messageMapping, enableTLS, now, sockets,
                timers, received, written, running>>

----------------------------------------------------------------------------
(* Direct calls of the pure functions, on inputs drawn from bounded sets *)

MaxFields == 4
MaxSmall == 2

ByteOrderMarkBytes == <<239, 187, 191>>

\* the byte segments a frame is put together from
Pieces ==
    { <<>>, <<120>>, B0000, B0001, ByteOrderMarkBytes,
      ByteOrderMarkBytes \o B0000, <<255>> }

RECURSIVE Joined(_)
\* k pieces with a separator byte between neighbours
Joined(k) ==
    IF k = 1 THEN Pieces
    ELSE {p \o <<SepByte>> \o r : p \in Pieces, r \in Joined(k - 1)}

Headers == {<<0, 0>>, <<0, 11>>, <<28, 28>>, <<66, 28>>}

SmallBytes == {0, 28, 255}

SmallArrays == UNION {[1..n -> SmallBytes] : n \in 0..MaxSmall}

\* "OP001", and the message {"opcode":"..."} around an opcode
OP001 == <<79, 80, 48, 48, 49>>
JsonOpen == <<123, 34, 111, 112, 99, 111, 100, 101, 34, 58, 34>>
JsonClose == <<34, 125>>
JsonMessage(opcode) == JsonOpen \o opcode \o JsonClose

\* the messages the README describes: a plain opcode, an opcode with more
\* text behind it, and a JSON object with an opcode field
ReadmeMessages == {OP001, OP001 \o <<120, 121>>, JsonMessage(OP001), JsonMessage(GIS)}

Buffers ==
    SmallArrays
    \cup {BadMessage}
    \cup ReadmeMessages
    \cup {h \o b : h \in Headers, b \in UNION {Joined(k) : k \in 1..MaxFields}}

Opcodes == {GIS, Null, NullText, B0000, <<>>}

\* 2 bytes hold lengths below LenCapacity
LenCapacity == 256 * 256

EdgeLens == {255, 256, 257, LenCapacity - 1, LenCapacity, LenCapacity + 1}

\* len bytes that repeat the pattern pat, as a tuple
Cycle(pat, len) ==
    SubSeq([i \in 1..len |-> pat[((i - 1) % Len(pat)) + 1]], 1, len)

\* the payloads framed: a pattern and a length, the bytes are Cycle(pat, len)
Payloads ==
    {[pat |-> p, len |-> n] :
        p \in [1..MaxSmall -> SmallBytes], n \in (0..MaxSmall) \cup EdgeLens}

\* what is kept of a frame built from data: its size, its first 2 bytes, and
\* whether the bytes behind them are data
FrameView(frame, data) ==
    [size |-> Len(frame),
     prefix |-> SubSeq(frame, 1, 2),
     rest |-> IF SubSeq(frame, 3, Len(frame)) = data THEN "payload" ELSE "other"]

MaxParts == 2

\* "<<FS>SO>": an FS token inside the letters and brackets of an SO token
NestedToken == <<60>> \o TokFS \o <<83, 79, 62>>

\* what a response text is put together from: the four tokens, brackets and
\* letters that almost spell one ("<", "SO>", "<F", "S>", "<fs>"), a token
\* inside another, a raw separator character, a two-byte character and a
\* surrogate pair
TextPieces ==
    { TokFS, TokGS, TokSO, TokSI,
      <<60>>, <<83, 79, 62>>, <<60, 70>>, <<83, 62>>, <<60, 102, 115, 62>>,
      NestedToken, <<FS>>, <<233>>, <<55357, 56832>> }

RECURSIVE Concats(_)
\* the texts of exactly k pieces
Concats(k) ==
    IF k = 0 THEN {<<>>}
    ELSE {p \o r : p \in TextPieces, r \in Concats(k - 1)}

Texts == UNION {Concats(k) : k \in 0..MaxParts}

PureInit ==
    /\ ret = NotReturned
    /\ \/ /\ call \in {[fn |-> "extractOpcode", arg |-> b] : b \in Buffers}
          /\ Loaded(NoMapping, FALSE)
       \/ /\ call \in {[fn |-> "getResponseMessage", arg |-> o] : o \in Opcodes}
          /\ \E m \in Mappings : Loaded(m, FALSE)
       \/ /\ call \in {[fn |-> "appendLength", arg |-> p] : p \in Payloads}
          /\ Loaded(NoMapping, FALSE)
       \/ /\ call \in {[fn |-> "replaceSeperatorAndToUint8Array", arg |-> t] :
                           t \in Texts}
          /\ Loaded(NoMapping, FALSE)

CallExtractOpcode ==
    /\ call.fn = "extractOpcode" /\ ret = NotReturned
    /\ ret' = Return(extractOpcode(call.arg))
    /\ UNCHANGED <<serverVars, call>>

CallGetResponseMessage ==
    /\ call.fn = "getResponseMessage" /\ ret = NotReturned
    /\ ret' = Return(getResponseMessage(call.arg))
    /\ UNCHANGED <<serverVars, call>>

CallAppendLength ==
    /\ call.fn = "appendLength" /\ ret = NotReturned
    /\ LET data == Cycle(call.arg.pat, call.arg.len)
       IN ret' = Return(FrameView(appendLength(data), data))
    /\ UNCHANGED <<serverVars, call>>

CallReplaceSeperator ==
    /\ call.fn = "replaceSeperatorAndToUint8Array" /\ ret = NotReturned
    /\ LET bytes == replaceSeperatorAndToUint8Array(call.arg)
       IN ret' = IF bytes = Exception THEN Thrown ELSE Return(bytes)
    /\ UNCHANGED <<serverVars, call>>

PureNext ==
    \/ CallExtractOpcode
    \/ CallGetResponseMessage
    \/ CallAppendLength
    \/ CallReplaceSeperator

PureSpec == PureInit /\ [][PureNext]_vars

----------------------------------------------------------------------------
(* The listener: connections, data events, delayed writes *)

MaxEvents == 2
MaxTime == 3000

\* the clock moves in steps of half the delay
Step == Delay \div 2

\* 2 header bytes, then "xx" FS "yy" FS and the third field
FrameWith(field) == <<0, 11, 120, 120, 28, 121, 121, 28>> \o field

\* the frames the clients send: one that decodes and one that does not
Frames == {FrameWith(B0000), FrameWith(B0001)}

\* config.json's mappings of the listener runs
ServerMappings == {NoMapping, [k \in {GIS} |-> TokenText]}

Init ==
    /\ \E m \in ServerMappings, t \in BOOLEAN : Loaded(m, t)
    /\ call = NoCall
    /\ ret = NotReturned

\* a variant that schedules the write with no delay
ScheduleWriteNow(c, msg, res) ==
    Append(timers, [conn |-> c, msg |-> msg, res |-> res, due |-> now])

\* a variant that puts the new timer before the pending ones
ScheduleWriteFirst(c, msg, res) ==
    <<[conn |-> c, msg |-> msg, res |-> res, due |-> now + Delay]>> \o timers

\* setTimeout(() => { socket.write(appendLength(res)); }, 2000) in the data
\* handler of connection c, for its data event number msg
ScheduleWrite(c, msg, res) ==
    Append(timers, [conn |-> c, msg |-> msg, res |-> res, due |-> now + Delay])

\* a variant in which the handler stores the text it resolved in the mapping
MappingWithResolved(opcode) ==
    [k \in DOMAIN messageMapping \cup {ToText(opcode)} |->
        IF k = ToText(opcode) THEN getResponseMessage(opcode)
        ELSE messageMapping[k]]

\* the mapping after a data handler has handled opcode: the handlers and
\* getResponseMessage read messageMapping and assign nothing to it
MappingAfter(opcode) == messageMapping

\* the handler returns early: nothing is scheduled
NoResponse == [timers |-> timers, running |-> running]

\* the end of both handlers: the response is encoded and its write scheduled;
\* an exception of the encoder escapes the handler and ends the process
Respond(c, msg, responseMessage) ==
    LET res == replaceSeperatorAndToUint8Array(responseMessage)
    IN IF res = Exception
       THEN [timers |-> timers, running |-> FALSE]
       ELSE [timers |-> ScheduleWrite(c, msg, res), running |-> running]

\* the timer list and the process after the plain TCP handler has run on data
tcpOnData(c, msg, data) ==
    LET opcode == extractOpcode(data)
        responseMessage == getResponseMessage(opcode)
    IN IF Falsy(opcode) THEN NoResponse
       ELSE IF Falsy(responseMessage) THEN NoResponse
       ELSE Respond(c, msg, responseMessage)

\* the timer list and the process after the TLS handler has run on data
tlsOnData(c, msg, data) ==
    LET opcode == extractOpcode(data)
        responseMessage == getResponseMessage(opcode)
    IN Respond(c, msg, responseMessage)

\* a variant whose callback writes to the socket of the latest data event
SocketOfLatestEvent(t) == received[Len(received)].conn

\* the socket the timer callback t writes to: the one its closure captured
SocketOf(t) == t.conn

\* a variant in which the write to a closed socket throws
SocketWriteThrows(c, msg, data) ==
    IF sockets[c] = "open"
    THEN [written |-> Append(written,
                             [conn |-> c, msg |-> msg, data |-> data, at |-> now]),
          running |-> running]
    ELSE [written |-> written, running |-> FALSE]

\* socket.write(data) from the timer of data event msg: a socket that has
\* ended or failed takes nothing and reports the failure to its own error
\* listener, which logs it
SocketWrite(c, msg, data) ==
    IF sockets[c] = "open"
    THEN [written |-> Append(written,
                             [conn |-> c, msg |-> msg, data |-> data, at |-> now]),
          running |-> running]
    ELSE [written |-> written, running |-> running]

\* the timers whose time has come
Due == {k \in 1..Len(timers) : timers[k].due <= now}

\* the timer that runs next: the earliest due, the first scheduled of those
NextTimer ==
    CHOOSE k \in Due :
        \A j \in Due : timers[k].due < timers[j].due
                       \/ (timers[k].due = timers[j].due /\ k <= j)

\* createTLSServer(): config.tls is "absent", lacks its key ("nokey") or its
\* certificate ("nocert"), names both files ("both") or names a file that
\* cannot be read ("unreadable"), which readFileSync answers by throwing
createTLSServer ==
    IF config.tls \in {"absent", "nokey", "nocert"}
    THEN [process EXCEPT
              !.phase = "exited", !.exitCode = ExitFailure,
              !.diagnostic = "TLS enabled but certificates not configured in config.json",
              !.tlsConsulted = TRUE]
    ELSE IF config.tls = "unreadable"
    THEN [process EXCEPT
              !.phase = "exited", !.exitCode = ExitFailure,
              !.diagnostic = "uncaught exception", !.tlsConsulted = TRUE]
    ELSE [process EXCEPT
              !.phase = "listening", !.listener = "tls", !.tlsConsulted = TRUE]

\* the start section: the TLS or the plain TCP listener listens on the port
Listen ==
    /\ running
    /\ process.phase = "starting"
    /\ call = NoCall
    /\ process' = IF enableTLS
                  THEN createTLSServer
                  ELSE [process EXCEPT !.phase = "listening", !.listener = "tcp"]
    /\ UNCHANGED <<config, messageMapping, enableTLS, now, sockets, timers,
                   received, written, running, call, ret>>

Connect(c) ==
    /\ running
    /\ process.phase = "listening"
    /\ sockets[c] = "none"
    /\ sockets' = [sockets EXCEPT ![c] = "open"]
    /\ UNCHANGED <<config, process, messageMapping, enableTLS, now, timers, received, written,
                   running, call, ret>>

\* a data event is delivered while time is left for its timer to come due
DataGuard(c) ==
    /\ running
    /\ sockets[c] = "open"
    /\ Len(received) < MaxEvents
    /\ now + Delay <= MaxTime

TcpData(c, data) ==
    /\ ~enableTLS
    /\ DataGuard(c)
    /\ received' = Append(received, [conn |-> c, buf |-> data, at |-> now])
    /\ LET after == tcpOnData(c, Len(received) + 1, data)
       IN timers' = after.timers /\ running' = after.running
    /\ messageMapping' = MappingAfter(extractOpcode(data))
    /\ UNCHANGED <<config, process, enableTLS, now, sockets, written, call, ret>>

TlsData(c, data) ==
    /\ enableTLS
    /\ DataGuard(c)
    /\ received' = Append(received, [conn |-> c, buf |-> data, at |-> now])
    /\ LET after == tlsOnData(c, Len(received) + 1, data)
       IN timers' = after.timers /\ running' = after.running
    /\ messageMapping' = MappingAfter(extractOpcode(data))
    /\ UNCHANGED <<config, process, enableTLS, now, sockets, written, call, ret>>

\* the "end" listener: it logs, and the socket is closed
SocketEnd(c) ==
    /\ running
    /\ sockets[c] = "open"
    /\ sockets' = [sockets EXCEPT ![c] = "closed"]
    /\ UNCHANGED <<config, process, messageMapping, enableTLS, now, timers, received, written,
                   running, call, ret>>

\* the "error" listener: it logs, and the socket is destroyed
SocketError(c) ==
    /\ running
    /\ sockets[c] = "open"
    /\ sockets' = [sockets EXCEPT ![c] = "closed"]
    /\ UNCHANGED <<config, process, messageMapping, enableTLS, now, timers, received, written,
                   running, call, ret>>

\* the timer callback of the next due timer
TimerFires ==
    /\ running
    /\ Due # {}
    /\ LET k == NextTimer
           t == timers[k]
           w == SocketWrite(SocketOf(t), t.msg, appendLength(t.res))
       IN /\ timers' = SubSeq(timers, 1, k - 1) \o SubSeq(timers, k + 1, Len(timers))
          /\ written' = w.written
          /\ running' = w.running
    /\ UNCHANGED <<config, process, messageMapping, enableTLS, now, sockets, received, call, ret>>

\* time passes once every due timer has run
Tick ==
    /\ running
    /\ process.phase = "listening"
    /\ Due = {}
    /\ now + Step <= MaxTime
    /\ now' = now + Step
    /\ UNCHANGED <<config, process, messageMapping, enableTLS, sockets, timers, received,
                   written, running, call, ret>>

Next ==
    \/ Listen
    \/ \E c \in Conns : Connect(c)
    \/ \E c \in Conns, data \in Frames : TcpData(c, data)
    \/ \E c \in Conns, data \in Frames : TlsData(c, data)
    \/ \E c \in Conns : SocketEnd(c)
    \/ \E c \in Conns : SocketError(c)
    \/ TimerFires
    \/ Tick

Spec == Init /\ [][Next]_vars

\* timers run when due and the clock keeps moving
FairSpec == Spec /\ WF_vars(TimerFires) /\ WF_vars(Tick)

----------------------------------------------------------------------------
(* The start of the server under every configuration, and the connections  *)
(* it accepts                                                              *)

Ports == {NoPort, 0, ReadmePort}

StartConfigs ==
    [port : Ports,
     enableTLS : {"true", "false", "'true'", "1", "absent"},
     tls : {"absent", "nokey", "nocert", "both", "unreadable"}]

StartInit ==
    /\ \E cfg \in StartConfigs : Booted(NoMapping, cfg)
    /\ call = NoCall
    /\ ret = NotReturned

StartNext ==
    \/ Listen
    \/ \E c \in Conns : Connect(c)
    \/ \E c \in Conns : SocketEnd(c)
    \/ \E c \in Conns : SocketError(c)

StartSpec == StartInit /\ [][StartNext]_vars

----------------------------------------------------------------------------
(* Properties of the pure functions, under PureSpec *)

Returned(fn) == call.fn = fn /\ ret.state = "returned"

\* the non-empty byte segments of a buffer: the first 2 bytes dropped, the
\* rest cut at every separator byte
ByteSegments(buffer) ==
    SelectSeq(SplitLoop(SubSeq(buffer, HeaderLen + 1, Len(buffer)), 1, 1, <<>>),
              LAMBDA seg : seg # <<>>)

\* the value of a 2-byte big-endian prefix
PrefixValue(prefix) == prefix[1] * 256 + prefix[2]

\* C2: extractOpcode returns "GIS" exactly when the segment at index 2 of the
\* non-empty 0x1C-separated segments behind the 2 header bytes equals "B0000",
\* and null otherwise; it returns nothing else.
C2_GisIffThirdSegmentIsSentinel ==
    Returned("extractOpcode") =>
        /\ ret.value \in {GIS, Null}
        /\ ret.value = GIS <=> At(ByteSegments(call.arg), SentinelIndex) = B0000

\* C3: extractOpcode returns null for every buffer of length <= 2 and for
\* every buffer with fewer than 3 non-empty segments behind the header,
\* buffers of separators only included.
C3_NullOnShortOrFewSegments ==
    (/\ Returned("extractOpcode")
     /\ \/ Len(call.arg) <= HeaderLen
        \/ Len(ByteSegments(call.arg)) < SentinelIndex + 1)
    => ret.value = Null

\* a buffer of separators only behind its header was decoded to null
C3_Witness ==
    /\ Returned("extractOpcode")
    /\ Len(call.arg) > HeaderLen + 1
    /\ \A i \in HeaderLen + 1..Len(call.arg) : call.arg[i] = SepByte
    /\ ret.value = Null

\* C4: getResponseMessage returns the mapped text for every opcode that is a
\* key of the mapping, the empty text included, and "Unknown opcode: " with
\* the opcode appended for every other opcode.
C4_MappedTextOrUnknown ==
    Returned("getResponseMessage") =>
        LET key == ToText(call.arg)
        IN IF key \in DOMAIN messageMapping
           THEN ret.value = messageMapping[key]
           ELSE ret.value = UnknownPrefix \o key

\* C5: for a payload of at most 65535 bytes appendLength returns 2 bytes
\* holding the payload's length, high byte first, followed by the payload
\* unchanged.
C5_BigEndianLengthThenPayload ==
    (Returned("appendLength") /\ call.arg.len < LenCapacity) =>
        /\ ret.value.size = call.arg.len + 2
        /\ ret.value.prefix[1] \in 0..255 /\ ret.value.prefix[2] \in 0..255
        /\ PrefixValue(ret.value.prefix) = call.arg.len
        /\ ret.value.rest = "payload"

\* the largest payload the prefix can describe was framed
C5_Witness ==
    /\ Returned("appendLength")
    /\ call.arg.len = LenCapacity - 1
    /\ ret.value.prefix = <<255, 255>>
    /\ ret.value.size = LenCapacity + 1

\* C6: framing a payload of 65536 bytes or more raises an error, and no frame
\* is produced whose prefix differs from the number of bytes behind it.
C6_OversizedPayloadRejected ==
    (call.fn = "appendLength" /\ ret # NotReturned) =>
        /\ call.arg.len >= LenCapacity => ret = Thrown
        /\ ret # Thrown => PrefixValue(ret.value.prefix) = ret.value.size - 2

\* buffer with its first 2 bytes replaced by those of header
WithHeader(header, buffer) ==
    header \o SubSeq(buffer, HeaderLen + 1, Len(buffer))

\* C18: extractOpcode does not depend on the first 2 bytes of the buffer: two
\* buffers of equal length that differ only in those bytes decode to the same
\* result, whether or not the 2 bytes state the length of the rest and also
\* when they are separator bytes.
C18_HeaderBytesIgnored ==
    (Returned("extractOpcode") /\ call.arg # BadMessage) =>
        /\ Len(call.arg) >= HeaderLen =>
               \A h \in Headers :
                   extractOpcode(WithHeader(h, call.arg)) = ret.value
        /\ Len(call.arg) < HeaderLen =>
               \A b \in [1..Len(call.arg) -> SmallBytes] :
                   extractOpcode(b) = ret.value

\* a frame whose 2 header bytes are separator bytes was decoded to "GIS"
C18_Witness ==
    /\ Returned("extractOpcode")
    /\ Len(call.arg) > HeaderLen
    /\ SubSeq(call.arg, 1, HeaderLen) = <<SepByte, SepByte>>
    /\ ret.value = GIS

\* message is {"opcode":"..."} with a text free of quotes and backslashes
IsOpcodeJson(message) ==
    /\ Len(message) >= Len(JsonOpen) + Len(JsonClose)
    /\ SubSeq(message, 1, Len(JsonOpen)) = JsonOpen
    /\ SubSeq(message, Len(message) - Len(JsonClose) + 1, Len(message)) = JsonClose
    /\ \A k \in Len(JsonOpen) + 1..Len(message) - Len(JsonClose) :
           message[k] \notin {34, 92}

\* the opcode as the README describes its extraction: the opcode field of a
\* JSON message, otherwise the first 5 characters of the message
ReadmeOpcode(message) ==
    IF IsOpcodeJson(message)
    THEN Utf8Decode(SubSeq(message, Len(JsonOpen) + 1,
                           Len(message) - Len(JsonClose)), 1, 0, 0, 128, 191)
    ELSE SubSeq(Utf8Decode(message, 1, 0, 0, 128, 191), 1, 5)

\* C16: as the README states, the opcode of a message is its opcode field if
\* the message is JSON with such a field, and otherwise its first 5
\* characters.
C16_OpcodeAsReadmeStates ==
    (/\ Returned("extractOpcode")
     /\ call.arg # BadMessage
     /\ IsOpcodeJson(call.arg) \/ Len(call.arg) >= 5)
    => ret.value = ReadmeOpcode(call.arg)

----------------------------------------------------------------------------
(* Properties of the listener, under Spec and FairSpec *)

Events == 1..Len(received)

Decodes(i) == extractOpcode(received[i].buf) # Null

TimersOf(i) == {k \in 1..Len(timers) : timers[k].msg = i}

WritesOf(i) == {k \in 1..Len(written) : written[k].msg = i}

\* the frame the handlers build for a data event
ResponseFrame(buf) ==
    appendLength(replaceSeperatorAndToUint8Array(
        getResponseMessage(extractOpcode(buf))))

OnConn(c, records) == SelectSeq(records, LAMBDA r : r.conn = c)

\* C1: a data event whose decoding fails schedules no timer and causes no
\* write, on the plain TCP and on the TLS listener alike.
C1_NoResponseOnDecodeFailure ==
    \A i \in Events :
        ~Decodes(i) => TimersOf(i) = {} /\ WritesOf(i) = {}

\* C7 (safety): a data event that decodes has at most one timer or write, one
\* of them while its socket is open, and its write carries the framed
\* response no sooner than the delay after its receipt.
C7_Safety ==
    \A i \in Events :
        Decodes(i) =>
            /\ Cardinality(TimersOf(i)) + Cardinality(WritesOf(i)) <= 1
            /\ sockets[received[i].conn] = "open"
                   => TimersOf(i) \cup WritesOf(i) # {}
            /\ \A k \in TimersOf(i) : timers[k].due = received[i].at + Delay
            /\ \A k \in WritesOf(i) :
                   /\ written[k].at >= received[i].at + Delay
                   /\ written[k].conn = received[i].conn
                   /\ written[k].data = ResponseFrame(received[i].buf)

\* C7: each data event that decodes to an opcode is answered by exactly one
\* framed response, written only after the delay has elapsed, eventually
\* written if the connection stays open, and never repeated.
C7_OneDelayedResponse ==
    /\ []C7_Safety
    /\ \A i \in 1..MaxEvents :
           (i \in Events /\ Decodes(i))
           ~> (i \in Events
               /\ (WritesOf(i) # {} \/ sockets[received[i].conn] # "open"))

\* a decodable event has been answered once, after the delay
C7_Witness ==
    \E i \in Events :
        /\ Decodes(i)
        /\ Cardinality(WritesOf(i)) = 1
        /\ TimersOf(i) = {}
        /\ \A k \in WritesOf(i) : written[k].at = received[i].at + Delay

C9_ConnectionsIndependent ==
    /\ \A k \in 1..Len(written) :
           LET e == received[written[k].msg]
           IN /\ written[k].conn = e.conn
              /\ written[k].data = ResponseFrame(e.buf)
              /\ written[k].at = e.at + Delay
    /\ \A k \in 1..Len(timers) :
           LET e == received[timers[k].msg]
           IN /\ timers[k].conn = e.conn
              /\ timers[k].due = e.at + Delay
              /\ timers[k].due >= now
    /\ \A i \in Events :
           /\ Cardinality(WritesOf(i)) + Cardinality(TimersOf(i)) <= 1
           /\ (Decodes(i) /\ sockets[received[i].conn] = "open")
                  => WritesOf(i) \cup TimersOf(i) # {}

\* B's frame was answered although A, which had sent a frame, is closed
C9_Witness ==
    /\ sockets["A"] = "closed"
    /\ \E i \in Events : received[i].conn = "A"
    /\ \E k \in 1..Len(written) :
           /\ written[k].conn = "B"
           /\ written[k].at = received[written[k].msg].at + Delay

\* C10: the process keeps running; a closed connection stays closed, gets no
\* further write and no further data event; closing a connection and the
\* failing write of its timer change neither the timers nor the writes of
\* the other connections.
C10_ClosedWriteFailsSafely ==
    [][/\ running'
       /\ \A c \in Conns :
              /\ sockets[c] = "closed" =>
                     /\ sockets'[c] = "closed"
                     /\ OnConn(c, written') = OnConn(c, written)
                     /\ OnConn(c, received') = OnConn(c, received)
              /\ (\/ sockets[c] = "open" /\ sockets'[c] = "closed"
                  \/ sockets[c] = "closed"
                     /\ OnConn(c, timers') # OnConn(c, timers)) =>
                     \A d \in Conns \ {c} :
                         /\ OnConn(d, timers') = OnConn(d, timers)
                         /\ OnConn(d, written') = OnConn(d, written)
                         /\ sockets'[d] = sockets[d]]_vars

\* the write of a decodable frame was abandoned because its socket had closed
C10_Witness ==
    /\ running
    /\ \E i \in Events :
           /\ Decodes(i)
           /\ sockets[received[i].conn] = "closed"
           /\ TimersOf(i) = {}
           /\ WritesOf(i) = {}

\* the data handler of event i ran to its setTimeout call
Scheduled(i) == TimersOf(i) \cup WritesOf(i) # {}

\* C14: no inbound message stops the process or disturbs a connection: the
\* decoder gives an opcode or null and never an exception, and resolving,
\* encoding and framing the response under a text-valued mapping raise
\* nothing out of the data handler, which runs to its end.
C14_NoMessageStopsTheProcess ==
    /\ running
    /\ Events # {} => process.phase = "listening"
    /\ \A i \in Events :
           LET opcode == extractOpcode(received[i].buf)
               responseMessage == getResponseMessage(opcode)
           IN /\ opcode \in {GIS, Null}
              /\ ~Falsy(responseMessage)
              /\ replaceSeperatorAndToUint8Array(responseMessage) # Exception
              /\ (sockets[received[i].conn] = "open" /\ (enableTLS \/ Decodes(i)))
                     => Scheduled(i)

\* the TLS listener answered a frame whose decoding had failed, and went on
\* to answer a frame of the other connection
C14_Witness ==
    /\ running
    /\ enableTLS
    /\ \E j, k \in 1..Len(written) :
           /\ j < k
           /\ ~Decodes(written[j].msg)
           /\ written[j].conn # written[k].conn
           /\ Decodes(written[k].msg)

\* C20: the mapping and the configuration are set at startup, before a
\* connection is accepted, and no later step changes them: all connections
\* resolve the same opcode to the same text for the whole run.
C20_MappingSetOnce ==
    [][/\ messageMapping' = messageMapping
       /\ config' = config
       /\ enableTLS' = enableTLS
       /\ process.phase = "starting" => sockets = [c \in Conns |-> "none"]
       /\ \A opcode \in {GIS, Null} :
              getResponseMessage(opcode)' = getResponseMessage(opcode)
       /\ \A j, k \in 1..Len(written') :
              extractOpcode(received'[written'[j].msg].buf)
              = extractOpcode(received'[written'[k].msg].buf)
                  => written'[j].data = written'[k].data]_vars

\* both connections were answered with the same frame for the same opcode
\* under a mapping that holds a text for it
C20_Witness ==
    /\ GIS \in DOMAIN messageMapping
    /\ \E j, k \in 1..Len(written) :
           /\ j < k
           /\ written[j].conn # written[k].conn
           /\ Decodes(written[j].msg) /\ Decodes(written[k].msg)
           /\ written[j].data = written[k].data

----------------------------------------------------------------------------
(* Properties of the start, under StartSpec *)

Accepted == \E c \in Conns : sockets[c] # "none"

TlsUnconfigured == config.tls \in {"absent", "nokey", "nocert"}

\* C15: with enableTLS true and tls, tls.key or tls.cert missing, the process
\* logs a diagnostic and exits with a non-zero status before a listener
\* listens, so no connection is accepted; with enableTLS not exactly true the
\* plain TCP listener is started and the TLS settings are never consulted.
C15_TlsStartFailsFastElsePlainTcp ==
    /\ (config.enableTLS = "true" /\ TlsUnconfigured) =>
           /\ process.listener = "none"
           /\ ~Accepted
           /\ process.phase \in {"starting", "exited"}
           /\ process.phase = "exited" =>
                  /\ process.exitCode # 0
                  /\ process.diagnostic =
                         "TLS enabled but certificates not configured in config.json"
    /\ config.enableTLS # "true" =>
           /\ ~process.tlsConsulted
           /\ process.phase \in {"starting", "listening"}
           /\ process.phase = "listening" => process.listener = "tcp"
           /\ Accepted => process.listener = "tcp"

\* TLS is on, the key is missing, and the process has exited with status 1
C15_Witness ==
    /\ config.enableTLS = "true"
    /\ config.tls = "nokey"
    /\ process.phase = "exited"
    /\ process.exitCode = ExitFailure
    /\ ~Accepted

\* C17: when the configuration has no port field the server listens on the
\* default port 8080 that the README documents.
C17_DefaultPortIsReadmePort ==
    (process.phase = "listening" /\ config.port = NoPort) =>
        process.port = ReadmePort

----------------------------------------------------------------------------
(* Properties of the encoder, under PureSpec *)

\* the symbolic tokens and their control characters, in the order of the
\* four replace calls
TokenTable ==
    << [tok |-> TokFS, ch |-> FS], [tok |-> TokSO, ch |-> SO],
       [tok |-> TokGS, ch |-> GS], [tok |-> TokSI, ch |-> SI] >>

TokensAt(text, i) == {k \in 1..Len(TokenTable) : IsAt(text, i, TokenTable[k].tok)}

RECURSIVE OnePass(_, _)
\* one pass over text from index i: a token spelling becomes its control
\* character, every other character is copied
OnePass(text, i) ==
    IF i > Len(text) THEN <<>>
    ELSE IF TokensAt(text, i) # {}
        THEN LET k == CHOOSE k \in TokensAt(text, i) : TRUE
             IN <<TokenTable[k].ch>> \o OnePass(text, i + Len(TokenTable[k].tok))
    ELSE <<text[i]>> \o OnePass(text, i + 1)

\* bytes spell one of the four tokens somewhere
SpellsToken(bytes) ==
    \E i \in 1..Len(bytes), k \in 1..Len(TokenTable) :
        IsAt(bytes, i, TokenTable[k].tok)

\* C12: replaceSeperatorAndToUint8Array replaces every occurrence of each of
\* the four tokens by its control byte, leaves every other character in
\* place and in order, and leaves no token spelling in its output.
C12_EveryTokenBecomesItsControlByte ==
    Returned("replaceSeperatorAndToUint8Array") =>
        /\ ret.value = Utf8Encode(OnePass(call.arg, 1))
        /\ ~SpellsToken(ret.value)

\* the FS token followed by the GS token was encoded as 0x1C 0x1D
C12_Witness ==
    /\ Returned("replaceSeperatorAndToUint8Array")
    /\ call.arg = TokFS \o TokGS
    /\ ret.value = <<28, 29>>

ControlChars == {TokenTable[k].ch : k \in 1..Len(TokenTable)}

\* text holds one of the four control characters itself
HasControl(text) == \E i \in 1..Len(text) : text[i] \in ControlChars

\* the spelling of the token whose control character is ch
SpellingOf(ch) ==
    TokenTable[CHOOSE k \in 1..Len(TokenTable) : TokenTable[k].ch = ch].tok

RECURSIVE ReverseTokens(_)
\* each control byte of bytes is put back as the spelling of its token
ReverseTokens(bytes) ==
    IF bytes = <<>> THEN <<>>
    ELSE (IF bytes[1] \in ControlChars THEN SpellingOf(bytes[1]) ELSE <<bytes[1]>>)
         \o ReverseTokens(Tail(bytes))

\* C13: for a response text that holds none of the four raw control
\* characters, the token substitution of the encoder followed by putting each
\* control byte back as its token gives the original text.
C13_SubstitutionRoundTrips ==
    (Returned("replaceSeperatorAndToUint8Array") /\ ~HasControl(call.arg)) =>
        Utf8Decode(ReverseTokens(ret.value), 1, 0, 0, 128, 191) = call.arg

\* a text of a token and a two-byte character was encoded
C13_Witness ==
    /\ Returned("replaceSeperatorAndToUint8Array")
    /\ call.arg = TokSO \o <<233>>
    /\ ret.value = <<SO, 195, 169>>

\* the orders in which the four replace calls can be made
Orders ==
    {order \in [1..Len(TokenTable) -> 1..Len(TokenTable)] :
        \A j, k \in 1..Len(TokenTable) : order[j] = order[k] => j = k}

RECURSIVE SubstituteInOrder(_, _, _)
\* the replace calls number order[k], order[k + 1], ... made on text
SubstituteInOrder(text, order, k) ==
    IF k > Len(TokenTable) THEN text
    ELSE SubstituteInOrder(
             ReplaceAll(text, TokenTable[order[k]].tok, TokenTable[order[k]].ch),
             order, k + 1)

\* where pat occurs in text, counted from the end of text
OccurrencesFromEnd(text, pat) ==
    {Len(text) - i : i \in {i \in 1..Len(text) : IsAt(text, i, pat)}}

\* C19: the order of the four substitutions is immaterial: every one of the
\* 24 orders gives the bytes the code's order gives, and no substitution
\* creates or destroys an occurrence of another token.
C19_SubstitutionOrderImmaterial ==
    Returned("replaceSeperatorAndToUint8Array") =>
        /\ \A order \in Orders :
               Utf8Encode(SubstituteInOrder(call.arg, order, 1)) = ret.value
        /\ \A j, k \in 1..Len(TokenTable) :
               j # k =>
                   Cardinality(OccurrencesFromEnd(
                       ReplaceAll(call.arg, TokenTable[j].tok, TokenTable[j].ch),
                       TokenTable[k].tok))
                   = Cardinality(OccurrencesFromEnd(call.arg, TokenTable[k].tok))

\* "<<FS>SO>" was encoded: the FS token inside became 0x1C and no SO token
\* came into being around it
C19_Witness ==
    /\ Returned("replaceSeperatorAndToUint8Array")
    /\ call.arg = NestedToken
    /\ ret.value = <<60, FS, 83, 79, 62>>

----------------------------------------------------------------------------
(* The whole path from a sentinel frame to the written response, under     *)
(* EndToEndSpec: the mapping holds one text for "GIS"                      *)

EndToEndMappings == {[k \in {GIS} |-> Hello], [k \in {GIS} |-> <<>>]}

EndToEndInit ==
    /\ \E m \in EndToEndMappings, t \in BOOLEAN : Loaded(m, t)
    /\ call = NoCall
    /\ ret = NotReturned

EndToEndSpec == EndToEndInit /\ [][Next]_vars

Tokens == {TokFS, TokGS, TokSO, TokSI}

\* text spells one of the four tokens somewhere
HasToken(text) ==
    \E i \in 1..Len(text), tok \in Tokens : IsAt(text, i, tok)

\* 2 header bytes, then exactly three non-empty byte fields, the third "B0000"
SentinelFrame(buf) ==
    /\ Len(buf) > HeaderLen
    /\ LET segs == SplitLoop(SubSeq(buf, HeaderLen + 1, Len(buf)), 1, 1, <<>>)
       IN /\ Len(segs) = SentinelIndex + 1
          /\ \A k \in 1..Len(segs) : segs[k] # <<>>
          /\ segs[SentinelIndex + 1] = B0000

\* the length of bytes in 2 bytes, high byte first, and then bytes
BigEndianFrame(bytes) ==
    <<Len(bytes) \div 256, Len(bytes) % 256>> \o bytes

\* C11: with the mapping {"GIS": T}, T free of token spellings, a frame of 2
\* header bytes and three non-empty fields whose third is "B0000" is answered
\* by exactly one written frame: the 2-byte big-endian length of the UTF-8
\* bytes of T, then those bytes.
C11_SentinelFrameAnsweredByMappedText ==
    \A i \in Events :
        (/\ SentinelFrame(received[i].buf)
         /\ DOMAIN messageMapping = {GIS}
         /\ ~HasToken(messageMapping[GIS]))
        => /\ Cardinality(WritesOf(i)) + Cardinality(TimersOf(i)) <= 1
           /\ \A k \in WritesOf(i) :
                  written[k].data = BigEndianFrame(Utf8Encode(messageMapping[GIS]))

====
